---------------------------- MODULE Spec2Model ----------------------------
(***************************************************************************)
(* A model of JustPressThis.py: the order-form batch processor             *)
(* (process_csv), its page fetcher (fetch_product_details), the phone      *)
(* formatter and the stand-alone item parser (parse_product_item).         *)
(*                                                                         *)
(* Text is a sequence of tokens.  One-character tokens stand for           *)
(* themselves (":", ",", " ", the digits, "-", ".", "'").  The longer      *)
(* tokens stand for fixed pieces of text:                                  *)
(*   "PN"   'Product Name / ' followed by the four-character Chinese name  *)
(*          label (U+5546 U+54C1 U+540D U+7A31)                            *)
(*   "PL"   'Product Link'                                                 *)
(*   "/LZ"  '/ ' followed by the Chinese link label (U+5546 U+54C1 U+7DB2  *)
(*          U+5740)                                                        *)
(*   "PQ"   'Product Quantity'                                             *)
(*   "/QZ"  '/ ' followed by the Chinese quantity label (U+6240 U+9700     *)
(*          U+6578 U+91CF)                                                 *)
(*   "NL"   the line break '\n'                                            *)
(*   "http", "corvusbelli", ".com", ".org", "warhammer", "shop", "/x"      *)
(*          pieces of a link                                               *)
(*   "A"    a piece of a product name                                      *)
(* Substring search, split and strip work on the token sequence exactly    *)
(* as Python's work on the characters.                                     *)
(***************************************************************************)
EXTENDS Integers, Sequences, FiniteSets, TLC

VARIABLES
    data,               \* rows of the DataFrame that iterrows has yielded so far
    lines,              \* history: for each row yielded, the lines its blob was written as
    items,              \* row['...'].split('\n') of the current row (line 62)
    k,                  \* position of the for-loop of line 63 in items
    pc,                 \* control point of process_csv / fetch_product_details
    products,           \* line 58
    bookkeeping_data,   \* line 59
    incorrect_entries,  \* line 60
    fetch,              \* the running call of fetch_product_details
    out,                \* the spreadsheets written by lines 122-127
    origin,             \* history: input position of every row of the three lists
    fetchLog,           \* history: the calls of fetch_product_details, in order
    pIn,                \* parser harness: the name, link and quantity a text is built from
    pOut                \* parser harness: what the extraction returned

vars == <<data, lines, items, k, pc, products, bookkeeping_data,
          incorrect_entries, fetch, out, origin, fetchLog, pIn, pOut>>

procVars == <<data, lines, items, k, pc, products, bookkeeping_data,
              incorrect_entries, fetch, out, origin, fetchLog>>

(***************************************************************************)
(* Bounds of the model.                                                    *)
(***************************************************************************)
MaxRecords == 2
MaxItems == 2
MaxNameLen == 3
MaxQty == 12

(***************************************************************************)
(* Python's str operations, on token sequences.                            *)
(***************************************************************************)
Whitespace == {" ", "NL"}
Digits == {"0", "1", "2", "3", "4", "5", "6", "7", "8", "9"}

\* s[i:].startswith(sep), i counted from 1
MatchAt(s, sep, i) ==
    /\ i + Len(sep) - 1 <= Len(s)
    /\ \A j \in 1..Len(sep) : s[i + j - 1] = sep[j]

\* str.find from position i: the first place sep occurs at, 0 when it does not
FindFrom(s, sep, i) ==
    LET hits == {j \in i..(Len(s) - Len(sep) + 1) : MatchAt(s, sep, j)}
    IN  IF hits = {} THEN 0 ELSE CHOOSE j \in hits : \A h \in hits : j <= h

\* sub in s
Contains(s, sub) == FindFrom(s, sub, 1) # 0

\* s.startswith(prefix)
StartsWith(s, prefix) == MatchAt(s, prefix, 1)

RECURSIVE SplitFrom(_, _, _)
SplitFrom(s, sep, i) ==
    LET j == FindFrom(s, sep, i)
    IN  IF j = 0
        THEN <<SubSeq(s, i, Len(s))>>
        ELSE <<SubSeq(s, i, j - 1)>> \o SplitFrom(s, sep, j + Len(sep))

\* s.split(sep): the pieces between the occurrences of sep, left to right
Split(s, sep) == SplitFrom(s, sep, 1)

\* s.strip()
Strip(s) ==
    LET keep == {i \in 1..Len(s) : s[i] \notin Whitespace}
    IN  IF keep = {} THEN <<>>
        ELSE LET lo == CHOOSE i \in keep : \A j \in keep : i <= j
                 hi == CHOOSE i \in keep : \A j \in keep : j <= i
             IN  SubSeq(s, lo, hi)

DigitValue(d) ==
    CASE d = "0" -> 0 [] d = "1" -> 1 [] d = "2" -> 2 [] d = "3" -> 3
      [] d = "4" -> 4 [] d = "5" -> 5 [] d = "6" -> 6 [] d = "7" -> 7
      [] d = "8" -> 8 [] d = "9" -> 9

RECURSIVE DigitsValue(_)
DigitsValue(ds) ==
    IF ds = <<>> THEN 0
    ELSE 10 * DigitsValue(SubSeq(ds, 1, Len(ds) - 1)) + DigitValue(ds[Len(ds)])

\* int(s): surrounding whitespace is dropped, one sign is allowed, and what is
\* left must be one or more digits; anything else raises ValueError.
PyInt(s) ==
    LET t == Strip(s)
        signed == t # <<>> /\ t[1] \in {"-", "+"}
        ds == IF signed THEN Tail(t) ELSE t
    IN  IF ds = <<>> \/ \E i \in 1..Len(ds) : ds[i] \notin Digits
        THEN [exc |-> TRUE, v |-> 0]
        ELSE [exc |-> FALSE,
              v |-> IF signed /\ t[1] = "-" THEN 0 - DigitsValue(ds)
                    ELSE DigitsValue(ds)]

DigitToken(n) ==
    <<"0", "1", "2", "3", "4", "5", "6", "7", "8", "9">>[n + 1]

\* str(n) of a natural number
RECURSIVE PyStr(_)
PyStr(n) ==
    IF n < 10 THEN <<DigitToken(n)>>
    ELSE PyStr(n \div 10) \o <<DigitToken(n % 10)>>

(***************************************************************************)
(* The labels of the item format.                                          *)
(***************************************************************************)
NameLabel == <<"PN">>                          \* line 64
NameSep == <<"PN", ":", " ">>                  \* lines 66, 133
LinkCut == <<",", " ", "PL">>                  \* lines 66, 133
LinkSep == <<"PL", " ", "/LZ", ":", " ">>      \* lines 67, 134
QtyCut == <<",", " ", "PQ">>                   \* lines 67, 134
QtySep == <<"PQ", " ", "/QZ", ":", " ">>       \* lines 68, 135

\* The well-formed item text of a name, a link and a quantity text.
ItemText(name, link, qtyText) ==
    NameSep \o name \o <<",", " ">> \o LinkSep \o link
            \o <<",", " ">> \o QtySep \o qtyText

(***************************************************************************)
(* The extraction, inline in process_csv (lines 66-68).  x.split(sep)[1]   *)
(* raises IndexError when sep does not occur in x.                         *)
(***************************************************************************)
Raised == [exc |-> TRUE, v |-> <<>>]
Value(v) == [exc |-> FALSE, v |-> v]

\* ExtractName cutting at 'Product Link' instead of ', Product Link'.
ExtractNameCutAtLink(item) ==
    LET parts == Split(item, NameSep)
    IN  IF Len(parts) < 2 THEN Raised
        ELSE Value(Strip(Split(parts[2], <<"PL">>)[1]))

ExtractName(item) ==
    LET parts == Split(item, NameSep)
    IN  IF Len(parts) < 2 THEN Raised
        ELSE Value(Strip(Split(parts[2], LinkCut)[1]))

ExtractLink(item) ==
    LET parts == Split(item, LinkSep)
    IN  IF Len(parts) < 2 THEN Raised
        ELSE Value(Strip(Split(parts[2], QtyCut)[1]))

ExtractQuantity(item) ==
    LET parts == Split(item, QtySep)
    IN  IF Len(parts) < 2 THEN [exc |-> TRUE, v |-> 0]
        ELSE PyInt(Strip(parts[2]))

\* Lines 66-68 in order: the first statement that raises ends the extraction.
Extract(item) ==
    LET n == ExtractName(item)
        l == ExtractLink(item)
        q == ExtractQuantity(item)
    IN  IF n.exc \/ l.exc \/ q.exc
        THEN [exc |-> TRUE, name |-> <<>>, link |-> <<>>, quantity |-> 0]
        ELSE [exc |-> FALSE, name |-> n.v, link |-> l.v, quantity |-> q.v]

\* parse_product_item (lines 131-136): the same three statements, stand-alone.
parse_product_item(item) ==
    LET np == Split(item, NameSep)
        lp == Split(item, LinkSep)
        qp == Split(item, QtySep)
    IN  IF Len(np) < 2 \/ Len(lp) < 2 \/ Len(qp) < 2
           \/ PyInt(Strip(qp[2])).exc
        THEN [exc |-> TRUE, name |-> <<>>, link |-> <<>>, quantity |-> 0]
        ELSE [exc |-> FALSE,
              name |-> Strip(Split(np[2], LinkCut)[1]),
              link |-> Strip(Split(lp[2], QtyCut)[1]),
              quantity |-> PyInt(Strip(qp[2])).v]


(***************************************************************************)
(* The input.  A row of the CSV has a customer name, a phone number (read  *)
(* as text, line 56), a submission date and the item blob; pandas reads an *)
(* empty blob cell as NaN, a float.  Dates are day numbers: they order as  *)
(* the column's values do.                                                 *)
(***************************************************************************)
NaN == <<"<NaN>">>
None == <<"<None>">>

NameA == <<"A">>
LinkGW == <<"http", "warhammer", "/x">>
LinkCB == <<"http", "corvusbelli", ".com", "/x">>
LinkOther == <<"http", "shop", "/x">>
LinkCBOrg == <<"http", "corvusbelli", ".org", "/x">>
LinkBoth == <<"http", "corvusbelli", ".com", "/x", "warhammer">>
LinkNoScheme == <<"warhammer", "/x">>

LineTexts ==
    { <<"A">>,                                     \* free text, no label
      ItemText(NameA, LinkGW, <<"2">>),
      ItemText(NameA, LinkCB, <<"1">>),
      ItemText(NameA, LinkOther, <<"3">>),
      ItemText(NameA, LinkCBOrg, <<"2">>),
      ItemText(NameA, LinkBoth, <<"2">>),
      ItemText(NameA, LinkGW, <<"2", ".", "5">>),  \* quantity not an integer
      ItemText(NameA, LinkGW, <<"0", " ">>),       \* quantity <= 0, trailing blank
      ItemText(NameA, LinkNoScheme, <<"2">>),      \* link without http
      ItemText(<<>>, LinkGW, <<"2">>),             \* empty name
      NameSep \o NameA }                           \* link and quantity labels missing

\* The other three columns of the i-th row.  They do not steer the code; each
\* row has its own values, so that the rows made from it can be told apart,
\* and the file is not in date order.
CustomerOf(i) == <<"Customer">> \o PyStr(i)
PhoneOf(i) == <<"0", "9">> \o PyStr(i)
DateOf(i) == 31 - i
RowOf(i, blob) ==
    [customer |-> CustomerOf(i), phone |-> PhoneOf(i), date |-> DateOf(i),
     blob |-> blob]

RECURSIVE JoinLines(_)
JoinLines(ls) ==
    IF Len(ls) = 1 THEN ls[1]
    ELSE ls[1] \o <<"NL">> \o JoinLines(Tail(ls))

RECURSIVE SumLen(_)
SumLen(ss) == IF ss = <<>> THEN 0 ELSE Len(Head(ss)) + SumLen(Tail(ss))

\* The blobs a further row may hold: NaN, or one or more lines.
LineSeqs(n) == UNION {[1..m -> LineTexts] : m \in 1..n}

(***************************************************************************)
(* format_phone_number (lines 17-19).                                      *)
(***************************************************************************)
format_phone_number(phone) == <<"'">> \o phone

(***************************************************************************)
(* process_csv: the rows built by lines 84, 86, 88-95 and 100-105.         *)
(***************************************************************************)
CorvusMarker == <<"corvusbelli", ".com">>      \* 'corvusbelli.com', lines 79, 110
CorvusWord == <<"corvusbelli">>                \* "corvusbelli", line 124
WarhammerWord == <<"warhammer">>               \* 'warhammer', lines 111, 125

EnrichedRow(ref, e, price) == <<ref, e.name, e.link, price, e.quantity>>
DirectRow(e) == <<e.name, e.quantity, e.link>>
LedgerRow(e, row) ==
    <<e.name, e.quantity, row.customer, format_phone_number(row.phone),
      row.date, e.link>>

\* RejectedRow keeping the trimmed text instead of the line.
RejectedRowStripped(row, item) ==
    <<row.customer, format_phone_number(row.phone), row.date, Strip(item)>>

\* Lines 100-105.
RejectedRow(row, item) ==
    <<row.customer, format_phone_number(row.phone), row.date, item>>

\* AppendRow putting the row in front.
PrependRow(table, r) == <<r>> \o table

\* list.append
AppendRow(table, r) == Append(table, r)

\* Valid with 'quantity < 0' for 'quantity <= 0'.
ValidAllowingZero(e) ==
    /\ StartsWith(e.link, <<"http">>)
    /\ ~(e.link = <<>> \/ e.name = <<>> \/ e.quantity < 0)

\* Lines 71-77: the two checks that raise ValueError.
Valid(e) ==
    /\ StartsWith(e.link, <<"http">>)
    /\ ~(e.link = <<>> \/ e.name = <<>> \/ e.quantity <= 0)

\* NeedsFetch testing 'corvusbelli' instead of 'corvusbelli.com'.
NeedsFetchByWord(link) == Contains(link, CorvusWord)

\* Line 79.
NeedsFetch(link) == Contains(link, CorvusMarker)

\* Line 81: "not ref_number or not euro_price"; None and '' are falsy.
Falsy(v) == v = None \/ v = <<>>

FetchFailed(ret) == Falsy(ret[1]) \/ Falsy(ret[2])

FetchIdle ==
    [playwright |-> "none", browser |-> "none",
     reference |-> None, price |-> None, ret |-> <<None, None>>]

NoOutput ==
    [written |-> FALSE, corvus_belli |-> <<>>, games_workshop |-> <<>>,
     infinity_bookkeeping |-> <<>>, gw_bookkeeping |-> <<>>,
     incorrect |-> <<>>]

NoOrigin == [products |-> <<>>, bookkeeping |-> <<>>, incorrect |-> <<>>]

NoParse == [by |-> "none", exc |-> FALSE, name |-> <<>>, link |-> <<>>, quantity |-> 0]
NoParseInput == [name |-> <<>>, link |-> <<>>, quantity |-> 1]

\* Lines 56-60: the state when the loop of line 61 starts.
InitProc ==
    /\ data = <<>>
    /\ lines = <<>>
    /\ items = <<>>
    /\ k = 0
    /\ pc = "rows"
    /\ products = <<>>
    /\ bookkeeping_data = <<>>
    /\ incorrect_entries = <<>>
    /\ fetch = FetchIdle
    /\ out = NoOutput
    /\ origin = NoOrigin
    /\ fetchLog = <<>>

Init ==
    /\ InitProc
    /\ pIn = NoParseInput
    /\ pOut = NoParse

curRow == data[Len(data)]
curItem == items[k]
pos == <<Len(data), k>>

\* The end of the body of the loop of line 63: the next item, or the next row.
Advance ==
    IF k < Len(items)
    THEN k' = k + 1 /\ pc' = "items" /\ items' = items
    ELSE k' = 0 /\ pc' = "rows" /\ items' = <<>>

\* Lines 61-62: iterrows yields a row; its blob is split into lines.  A NaN
\* blob has no split: AttributeError, outside any try.
NextRow ==
    /\ pc = "rows"
    /\ Len(data) < MaxRecords
    /\ LET i == Len(data) + 1
       IN  \/ /\ data' = Append(data, RowOf(i, NaN))
              /\ lines' = Append(lines, <<>>)
              /\ pc' = "crashed"
              /\ UNCHANGED <<items, k>>
           \/ \E ls \in LineSeqs(MaxItems - SumLen(lines)) :
                /\ data' = Append(data, RowOf(i, JoinLines(ls)))
                /\ lines' = Append(lines, ls)
                /\ items' = Split(JoinLines(ls), <<"NL">>)
                /\ k' = 1
                /\ pc' = "items"
    /\ UNCHANGED <<products, bookkeeping_data, incorrect_entries, fetch, out,
                   origin, fetchLog, pIn, pOut>>

\* Line 64 false: the line is not an item.
SkipItem ==
    /\ pc = "items"
    /\ ~Contains(curItem, NameLabel)
    /\ Advance
    /\ UNCHANGED <<data, lines, products, bookkeeping_data, incorrect_entries,
                   fetch, out, origin, fetchLog, pIn, pOut>>

\* Lines 97-105: the except branch.
Reject ==
    /\ incorrect_entries' = AppendRow(incorrect_entries, RejectedRow(curRow, curItem))
    /\ origin' = [origin EXCEPT !.incorrect = Append(@, pos)]
    /\ UNCHANGED <<products, bookkeeping_data>>

\* Lines 64-77 raise: extraction or validation fails.
RejectItem ==
    /\ pc = "items"
    /\ Contains(curItem, NameLabel)
    /\ LET e == Extract(curItem) IN e.exc \/ ~Valid(e)
    /\ Reject
    /\ Advance
    /\ UNCHANGED <<data, lines, fetch, out, fetchLog, pIn, pOut>>

\* Lines 64-79 and 86-95: a valid item of any other link is taken as it is.
AcceptDirect ==
    /\ pc = "items"
    /\ Contains(curItem, NameLabel)
    /\ LET e == Extract(curItem) IN
         /\ ~e.exc /\ Valid(e) /\ ~NeedsFetch(e.link)
         /\ products' = AppendRow(products, DirectRow(e))
         /\ bookkeeping_data' = AppendRow(bookkeeping_data, LedgerRow(e, curRow))
    /\ origin' = [origin EXCEPT !.products = Append(@, pos),
                                !.bookkeeping = Append(@, pos)]
    /\ Advance
    /\ UNCHANGED <<data, lines, incorrect_entries, fetch, out, fetchLog, pIn, pOut>>

\* Lines 79-80: a valid item of the reference-priced vendor calls the fetcher.
StartFetch ==
    /\ pc = "items"
    /\ Contains(curItem, NameLabel)
    /\ LET e == Extract(curItem) IN ~e.exc /\ Valid(e) /\ NeedsFetch(e.link)
    /\ pc' = "f_enter"
    /\ fetch' = FetchIdle
    /\ fetchLog' = Append(fetchLog, pos)
    /\ UNCHANGED <<data, lines, items, k, products, bookkeeping_data,
                   incorrect_entries, out, origin, pIn, pOut>>


(***************************************************************************)
(* fetch_product_details (lines 21-50).  What the page does is the         *)
(* environment's choice: every step that talks to the browser either       *)
(* succeeds or raises.  The `with sync_playwright()` block of line 24 is   *)
(* left on every path, by the return of line 47 or by an exception on its  *)
(* way to line 48; leaving it stops the Playwright driver, and the driver  *)
(* takes the browsers it launched down with it.                            *)
(***************************************************************************)
RefInner == {<<"REF123", " ">>}                \* inner_text() of the sku element
PriceInner == {<<" ", "45", "EUR">>, <<>>}     \* inner_text() of the price element
RefSentinel == <<"Reference not found">>       \* line 38
PriceSentinel == <<"Price not found">>         \* line 39

\* PlaywrightExit leaving a launched browser running.
PlaywrightExitLeaks(f) == [f EXCEPT !.playwright = "stopped"]

\* __exit__ of the block of line 24
PlaywrightExit(f) ==
    [f EXCEPT !.playwright = "stopped",
              !.browser = IF @ = "open" THEN "closed" ELSE @]

FetchPcs == {"f_enter", "f_launch", "f_goto", "f_wait_ref", "f_wait_price",
             "f_query", "f_close", "f_return"}

\* Line 24: the driver starts.
FetchEnter ==
    /\ pc = "f_enter"
    /\ fetch' = [fetch EXCEPT !.playwright = "running"]
    /\ pc' = "f_launch"
    /\ UNCHANGED <<data, lines, items, k, products, bookkeeping_data,
                   incorrect_entries, out, origin, fetchLog, pIn, pOut>>

\* Line 25.
FetchLaunch ==
    /\ pc = "f_launch"
    /\ fetch' = [fetch EXCEPT !.browser = "open"]
    /\ pc' = "f_goto"
    /\ UNCHANGED <<data, lines, items, k, products, bookkeeping_data,
                   incorrect_entries, out, origin, fetchLog, pIn, pOut>>

\* Lines 26-27, 34, 35: the page loads; each selector shows up in time.
FetchPage ==
    /\ \/ pc = "f_goto" /\ pc' = "f_wait_ref"
       \/ pc = "f_wait_ref" /\ pc' = "f_wait_price"
       \/ pc = "f_wait_price" /\ pc' = "f_query"
    /\ UNCHANGED <<data, lines, items, k, products, bookkeeping_data,
                   incorrect_entries, fetch, out, origin, fetchLog, pIn, pOut>>

\* Lines 38-39: each field is the element's stripped text, or the sentinel
\* when query_selector finds no element any more.
FetchQuery ==
    /\ pc = "f_query"
    /\ \E r \in {Strip(t) : t \in RefInner} \cup {RefSentinel},
          p \in {Strip(t) : t \in PriceInner} \cup {PriceSentinel} :
         fetch' = [fetch EXCEPT !.reference = r, !.price = p]
    /\ pc' = "f_close"
    /\ UNCHANGED <<data, lines, items, k, products, bookkeeping_data,
                   incorrect_entries, out, origin, fetchLog, pIn, pOut>>

\* Lines 41-46: the log line, then browser.close().
FetchClose ==
    /\ pc = "f_close"
    /\ fetch' = [fetch EXCEPT !.browser = "closed"]
    /\ pc' = "f_return"
    /\ UNCHANGED <<data, lines, items, k, products, bookkeeping_data,
                   incorrect_entries, out, origin, fetchLog, pIn, pOut>>

\* Line 47: return reference, price; the with block is left.
FetchReturn ==
    /\ pc = "f_return"
    /\ fetch' = [PlaywrightExit(fetch) EXCEPT !.ret = <<fetch.reference, fetch.price>>]
    /\ pc' = "fetched"
    /\ UNCHANGED <<data, lines, items, k, products, bookkeeping_data,
                   incorrect_entries, out, origin, fetchLog, pIn, pOut>>

\* Lines 48-50: any statement of lines 24-46 raises (no driver, no browser,
\* navigation error, selector timeout, element gone between the two
\* query_selector calls, close on a dead browser); the with block, if it was
\* entered, is left, and the handler returns None, None.
FetchRaise ==
    /\ pc \in FetchPcs \ {"f_return"}
    /\ fetch' = [(IF pc = "f_enter" THEN fetch ELSE PlaywrightExit(fetch))
                   EXCEPT !.ret = <<None, None>>]
    /\ pc' = "fetched"
    /\ UNCHANGED <<data, lines, items, k, products, bookkeeping_data,
                   incorrect_entries, out, origin, fetchLog, pIn, pOut>>

\* Lines 80-84 and 88-95, or 97-105: the call has returned.
AfterFetch ==
    /\ pc = "fetched"
    /\ LET e == Extract(curItem) IN
         IF FetchFailed(fetch.ret)
         THEN Reject
         ELSE /\ products' = AppendRow(products,
                                EnrichedRow(fetch.ret[1], e, fetch.ret[2]))
              /\ bookkeeping_data' = AppendRow(bookkeeping_data, LedgerRow(e, curRow))
              /\ origin' = [origin EXCEPT !.products = Append(@, pos),
                                          !.bookkeeping = Append(@, pos)]
              /\ UNCHANGED incorrect_entries
    /\ fetch' = FetchIdle
    /\ Advance
    /\ UNCHANGED <<data, lines, out, fetchLog, pIn, pOut>>

(***************************************************************************)
(* Lines 110-129: the tables are built and written.                        *)
(***************************************************************************)
RECURSIVE MaxWidth(_)
MaxWidth(rows) ==
    IF rows = <<>> THEN 0
    ELSE LET w == Len(Head(rows))
             m == MaxWidth(Tail(rows))
         IN  IF w > m THEN w ELSE m

\* pd.DataFrame(rows, columns=...) of a list of lists: no rows give an empty
\* frame; otherwise the widest row must have as many fields as there are
\* columns, or ValueError is raised.
FrameOK(rows, ncols) == rows = <<>> \/ MaxWidth(rows) = ncols

\* sort_values(by='Date'): the rows, in some order that is non-decreasing by
\* date (field 5); the order of rows of one date is the sort routine's.
SortedByDate(rows) ==
    LET n == Len(rows)
        perms == {f \in [1..n -> 1..n] :
                    /\ \A i, j \in 1..n : i # j => f[i] # f[j]
                    /\ \A i, j \in 1..n : i < j => rows[f[i]][5] <= rows[f[j]][5]}
    IN  {[i \in 1..n |-> rows[f[i]]] : f \in perms}

SupplierA == SelectSeq(products, LAMBDA p : Contains(p[3], CorvusMarker))   \* line 110
SupplierB == SelectSeq(products, LAMBDA p : Contains(p[3], WarhammerWord))  \* line 111
LedgerA == SelectSeq(bookkeeping_data, LAMBDA b : Contains(b[6], CorvusWord))     \* line 124
LedgerB == SelectSeq(bookkeeping_data, LAMBDA b : Contains(b[6], WarhammerWord))  \* line 125

\* The input has no further row: lines 110-129.
WriteTables ==
    /\ pc = "rows"
    /\ IF FrameOK(SupplierA, 5) /\ FrameOK(SupplierB, 3)
       THEN /\ \E la \in SortedByDate(LedgerA), lb \in SortedByDate(LedgerB) :
                 out' = [written |-> TRUE,
                         corvus_belli |-> SupplierA,
                         games_workshop |-> SupplierB,
                         infinity_bookkeeping |-> la,
                         gw_bookkeeping |-> lb,
                         incorrect |-> incorrect_entries]   \* lines 126-127
            /\ pc' = "done"
       ELSE /\ pc' = "crashed"
            /\ UNCHANGED out
    /\ UNCHANGED <<data, lines, items, k, products, bookkeeping_data,
                   incorrect_entries, fetch, origin, fetchLog, pIn, pOut>>

Next ==
    \/ NextRow
    \/ SkipItem
    \/ RejectItem
    \/ AcceptDirect
    \/ StartFetch
    \/ FetchEnter
    \/ FetchLaunch
    \/ FetchPage
    \/ FetchQuery
    \/ FetchClose
    \/ FetchReturn
    \/ FetchRaise
    \/ AfterFetch
    \/ WriteTables

Spec == Init /\ [][Next]_vars


(***************************************************************************)
(* The extraction on its own: a text is built from a name, a link and a    *)
(* positive quantity, and handed to the inline extraction of process_csv   *)
(* (as the blob of a row: lines 62-68) and to parse_product_item.          *)
(***************************************************************************)
NameTokens == {"A", " ", ",", "PL"}
ParseNames == UNION {[1..n -> NameTokens] : n \in 0..MaxNameLen}
ParseLinks ==
    { LinkGW, LinkCB,
      <<"http", " ">>,
      <<"http", "NL", "/x">>,
      <<"http", ",", " ", "PQ">> }

BuiltText == ItemText(pIn.name, pIn.link, PyStr(pIn.quantity))

InitParse ==
    /\ InitProc
    /\ pIn \in [name : ParseNames, link : ParseLinks, quantity : 1..MaxQty]
    /\ pOut = NoParse

\* Lines 62-68 on a blob that is the text: the first line that holds the name
\* label is the item.
CallInline ==
    /\ pOut.by = "none"
    /\ LET ls == Split(BuiltText, <<"NL">>)
           first == CHOOSE i \in 1..Len(ls) :
                       /\ Contains(ls[i], NameLabel)
                       /\ \A j \in 1..(i - 1) : ~Contains(ls[j], NameLabel)
           e == Extract(ls[first])
       IN  pOut' = [by |-> "inline", exc |-> e.exc, name |-> e.name,
                    link |-> e.link, quantity |-> e.quantity]
    /\ UNCHANGED <<procVars, pIn>>

CallParseProductItem ==
    /\ pOut.by = "none"
    /\ LET e == parse_product_item(BuiltText)
       IN  pOut' = [by |-> "parse_product_item", exc |-> e.exc, name |-> e.name,
                    link |-> e.link, quantity |-> e.quantity]
    /\ UNCHANGED <<procVars, pIn>>

NextParse ==
    \/ CallInline
    \/ CallParseProductItem

SpecParse == InitParse /\ [][NextParse]_vars

(***************************************************************************)
(* Vocabulary of the properties.                                           *)
(***************************************************************************)
Before(p, q) == p[1] < q[1] \/ (p[1] = q[1] /\ p[2] < q[2])
Occurs(x, s) == \E i \in 1..Len(s) : s[i] = x
Increasing(s) == \A i, j \in 1..Len(s) : i < j => Before(s[i], s[j])
IsPrefix(s, t) == Len(s) <= Len(t) /\ SubSeq(t, 1, Len(s)) = s
GrowsByAppend(s, t) == IsPrefix(s, t) /\ Len(t) <= Len(s) + 1

LineAt(p) == lines[p[1]][p[2]]
Positions == {<<r, i>> : r \in 1..MaxRecords + 1, i \in 1..MaxItems + 1}
InFetch == pc \in FetchPcs \cup {"fetched"}

\* The lines the loop of line 63 is through with.
Handled ==
    {p \in Positions :
        /\ p[1] <= Len(lines)
        /\ p[2] <= Len(lines[p[1]])
        /\ \/ p[1] < Len(lines)
           \/ pc \in {"rows", "done", "crashed"}
           \/ p[2] < k}

Candidate(line) == Contains(line, NameLabel)

\* A candidate item that the validation must refuse.
FailsValidation(line) ==
    LET n == ExtractName(line)
        l == ExtractLink(line)
        q == ExtractQuantity(line)
    IN  \/ n.exc \/ l.exc \/ q.exc
        \/ q.v <= 0
        \/ ~StartsWith(l.v, <<"http">>)
        \/ n.v = <<>>
        \/ l.v = <<>>

\* name, link and quantity of a supplier row of either shape, and of a ledger row
RowName(r) == IF Len(r) = 5 THEN r[2] ELSE r[1]
RowLink(r) == r[3]
RowQuantity(r) == IF Len(r) = 5 THEN r[5] ELSE r[2]
SameItem(r, e) == RowName(r) = e.name /\ RowLink(r) = e.link /\ RowQuantity(r) = e.quantity
SameLedgerItem(b, e) == b[1] = e.name /\ b[6] = e.link /\ b[2] = e.quantity
\* FailsValidation and Extract of every line the input can hold, tabulated.
FailsOf == [l \in LineTexts |-> FailsValidation(l)]
ExtractOf == [l \in LineTexts |-> Extract(l)]

CountItem(t, e) == Cardinality({i \in 1..Len(t) : SameItem(t[i], e)})
CountLedgerItem(t, e) == Cardinality({i \in 1..Len(t) : SameLedgerItem(t[i], e)})
CountRawText(t, c) == Cardinality({i \in 1..Len(t) : t[i][4] = c})

\* C1: whenever fetch_product_details has returned a sentinel or None for the
\* reference or the price, the step of process_csv that follows appends the
\* item to incorrect_entries and nothing to products or bookkeeping_data.
C1_SentinelOrAbsentIsRejected ==
    [][ ( /\ pc = "fetched"
          /\ \/ fetch.ret[1] \in {None, RefSentinel}
             \/ fetch.ret[2] \in {None, PriceSentinel} )
        => /\ incorrect_entries' = Append(incorrect_entries,
                <<curRow.customer, <<"'">> \o curRow.phone, curRow.date, curItem>>)
           /\ products' = products
           /\ bookkeeping_data' = bookkeeping_data ]_vars

\* C2: when process_csv has finished, every candidate item of the input is in
\* the written tables exactly once: either in the rejected-entries table, or
\* in a supplier table and in a bookkeeping ledger.
C2_EveryCandidateRejectedOrAccepted ==
    pc = "done" =>
      \A p \in Handled :
        Candidate(LineAt(p)) =>
          LET c == LineAt(p)
              e == Extract(c)
              inInput == Cardinality({q \in Handled : LineAt(q) = c})
              rejected == CountRawText(out.incorrect, c)
              supplied == IF e.exc THEN 0
                          ELSE CountItem(out.corvus_belli, e)
                               + CountItem(out.games_workshop, e)
              ledgered == IF e.exc THEN 0
                          ELSE CountLedgerItem(out.infinity_bookkeeping, e)
                               + CountLedgerItem(out.gw_bookkeeping, e)
          IN  rejected + supplied = inInput /\ ledgered = supplied

\* C3: no record and no item makes process_csv end with an unhandled error.
C3_NoUnhandledError == pc # "crashed"

\* C4: every candidate item that fails validation is in incorrect_entries and
\* has no row in products or bookkeeping_data; every row of products, of
\* bookkeeping_data and of the written supplier and ledger tables has a
\* quantity >= 1, a non-empty name and a link that starts with http.
C4_InvalidItemsOnlyRejected ==
    /\ \A p \in Handled :
         (Candidate(LineAt(p)) /\ FailsOf[LineAt(p)])
           => /\ \E i \in 1..Len(incorrect_entries) :
                   origin.incorrect[i] = p /\ incorrect_entries[i][4] = LineAt(p)
              /\ ~Occurs(p, origin.products)
              /\ ~Occurs(p, origin.bookkeeping)
    /\ Len(origin.products) = Len(products)
    /\ Len(origin.bookkeeping) = Len(bookkeeping_data)
    /\ \A t \in {products, out.corvus_belli, out.games_workshop} :
         \A i \in 1..Len(t) :
           /\ RowQuantity(t[i]) >= 1
           /\ RowName(t[i]) # <<>>
           /\ StartsWith(RowLink(t[i]), <<"http">>)
    /\ \A t \in {bookkeeping_data, out.infinity_bookkeeping, out.gw_bookkeeping} :
         \A i \in 1..Len(t) :
           /\ t[i][2] >= 1
           /\ t[i][1] # <<>>
           /\ StartsWith(t[i][6], <<"http">>)

C4_Witness ==
    /\ pc = "done"
    /\ \E p \in Handled :
         /\ Candidate(LineAt(p))
         /\ ~ExtractQuantity(LineAt(p)).exc
         /\ ExtractQuantity(LineAt(p)).v <= 0
         /\ Occurs(p, origin.incorrect)
    /\ Len(out.games_workshop) = 1

\* C5 as stated: for any name, any link and any positive quantity, the
\* extraction of the built text returns exactly that name, link and quantity.
C5_RoundTripAnyText ==
    pOut.by # "none" =>
      /\ ~pOut.exc
      /\ pOut.name = pIn.name
      /\ pOut.link = pIn.link
      /\ pOut.quantity = pIn.quantity

\* A field the labels can delimit: no blank at either end, no line break and
\* none of the label texts inside.
Delimitable(s) ==
    /\ s = <<>> \/ (s[1] \notin Whitespace /\ s[Len(s)] \notin Whitespace)
    /\ \A lab \in {NameSep, LinkCut, LinkSep, QtyCut, QtySep, <<"NL">>} :
         ~Contains(s, lab)

\* C5, amended: for any name and link without leading or trailing
\* whitespace, without line break and without any of the label texts, and any
\* positive quantity, the extraction of the built text returns exactly that
\* name, link and quantity.
C5_RoundTripDelimitable ==
    (pOut.by # "none" /\ Delimitable(pIn.name) /\ Delimitable(pIn.link)) =>
      /\ ~pOut.exc
      /\ pOut.name = pIn.name
      /\ pOut.link = pIn.link
      /\ pOut.quantity = pIn.quantity

C5_Witness ==
    /\ pOut.by = "parse_product_item"
    /\ Delimitable(pIn.name) /\ Len(pIn.name) = 3
    /\ Delimitable(pIn.link)
    /\ pIn.quantity >= 10
    /\ pOut.name = pIn.name /\ pOut.quantity = pIn.quantity

\* C6: every rejected candidate item has exactly one row in
\* incorrect_entries, and that row is the record's customer name, its phone
\* number after an apostrophe, its submission date and the item's line as the
\* input holds it.
C6_OneExactEntryPerRejectedItem ==
    /\ Len(incorrect_entries) = Len(origin.incorrect)
    /\ \A i \in 1..Len(incorrect_entries) :
         LET p == origin.incorrect[i]
         IN  incorrect_entries[i] =
               <<data[p[1]].customer, <<"'">> \o data[p[1]].phone,
                 data[p[1]].date, LineAt(p)>>
    /\ \A i, j \in 1..Len(origin.incorrect) :
         i # j => origin.incorrect[i] # origin.incorrect[j]
    /\ \A p \in Handled :
         (Candidate(LineAt(p)) /\ ~Occurs(p, origin.products))
           => Occurs(p, origin.incorrect)
    /\ out.written => out.incorrect = incorrect_entries

C6_Witness ==
    /\ Len(incorrect_entries) = 2
    /\ incorrect_entries[2][4] # Strip(incorrect_entries[2][4])
    /\ incorrect_entries[1][3] # incorrect_entries[2][3]

\* C7: once a call of fetch_product_details has returned, on any path, the
\* browser it launched is closed.
C7_BrowserClosedOnReturn ==
    ~(pc \in FetchPcs) => fetch.browser # "open"

C7_Witness ==
    /\ pc = "fetched"
    /\ fetch.browser = "closed"
    /\ fetch.ret = <<None, None>>

\* C8: when process_csv has finished, an accepted item has a row in ledger A
\* exactly if it has one in supplier list A, and a row in ledger B exactly if
\* it has one in supplier list B; supplier list A holds five-field rows only
\* and supplier list B three-field rows only.
C8_LedgersSplitLikeSuppliers ==
    pc = "done" =>
      /\ \A i \in 1..Len(bookkeeping_data) :
           LET b == bookkeeping_data[i]
               e == [name |-> b[1], link |-> b[6], quantity |-> b[2]]
           IN  /\ (\E j \in 1..Len(out.infinity_bookkeeping) :
                      SameLedgerItem(out.infinity_bookkeeping[j], e))
                  <=> (\E j \in 1..Len(out.corvus_belli) :
                          SameItem(out.corvus_belli[j], e))
               /\ (\E j \in 1..Len(out.gw_bookkeeping) :
                      SameLedgerItem(out.gw_bookkeeping[j], e))
                  <=> (\E j \in 1..Len(out.games_workshop) :
                          SameItem(out.games_workshop[j], e))
      /\ \A j \in 1..Len(out.corvus_belli) : Len(out.corvus_belli[j]) = 5
      /\ \A j \in 1..Len(out.games_workshop) : Len(out.games_workshop[j]) = 3

\* C9: fetch_product_details is called at most once for an item, and only
\* for a candidate item that passed validation and whose link contains
\* 'corvusbelli.com'; while a call is running the loop stays at that item and
\* no table has a row of it or of a later item.
C9_OneFetchPerValidCorvusItem ==
    /\ Increasing(fetchLog)
    /\ \A i \in 1..Len(fetchLog) :
         LET line == LineAt(fetchLog[i])
         IN  /\ Candidate(line)
             /\ ~FailsOf[line]
             /\ Contains(ExtractOf[line].link, CorvusMarker)
    /\ InFetch =>
         /\ fetchLog # <<>> /\ fetchLog[Len(fetchLog)] = pos
         /\ \A t \in {origin.products, origin.bookkeeping, origin.incorrect} :
              \A i \in 1..Len(t) : Before(t[i], pos)
    /\ ~InFetch => fetch = FetchIdle

C9_Witness ==
    /\ pc = "done"
    /\ Len(fetchLog) = 2
    /\ Occurs(fetchLog[1], origin.incorrect)
    /\ Occurs(fetchLog[2], origin.products)

\* The rows of the three lists are those of their origins, which are in input
\* order.
InInputOrder ==
    /\ Len(products) = Len(origin.products)
    /\ Len(bookkeeping_data) = Len(origin.bookkeeping)
    /\ Len(incorrect_entries) = Len(origin.incorrect)
    /\ Increasing(origin.products)
    /\ Increasing(origin.bookkeeping)
    /\ Increasing(origin.incorrect)
    /\ \A i \in 1..Len(products) :
         SameItem(products[i], ExtractOf[LineAt(origin.products[i])])
    /\ \A i \in 1..Len(bookkeeping_data) :
         SameLedgerItem(bookkeeping_data[i], ExtractOf[LineAt(origin.bookkeeping[i])])
    /\ \A i \in 1..Len(incorrect_entries) :
         incorrect_entries[i][4] = LineAt(origin.incorrect[i])

\* C10: every step leaves products, bookkeeping_data and incorrect_entries
\* as they are or appends one row at the end; the rows are in input order; a
\* line without the name label changes none of the three.
C10_AppendOnlyInInputOrder ==
    /\ [][ /\ GrowsByAppend(products, products')
            /\ GrowsByAppend(bookkeeping_data, bookkeeping_data')
            /\ GrowsByAppend(incorrect_entries, incorrect_entries')
            /\ (pc = "items" /\ ~Candidate(curItem))
                 => UNCHANGED <<products, bookkeeping_data, incorrect_entries>> ]_vars
    /\ []InInputOrder

C10_Witness ==
    /\ Len(products) = 2
    /\ origin.products[1][1] = 1
    /\ origin.products[2][1] = 2
    /\ products[1] # products[2]

=============================================================================
